---- MODULE Spec2Model ----
(***************************************************************************)
(* Pokemon Radar Alert: the foreground (Tk event handlers of              *)
(* PokemonRadarGUI), the worker threads running monitor_screen, the       *)
(* ScreenMonitor capture/classification functions and the per-thread      *)
(* capture handles.                                                       *)
(*                                                                         *)
(* Time is counted in whole seconds.  A frame is a width x height image   *)
(* whose pixel array is kept run-length encoded (<<pixel, count>> runs):  *)
(* the classifiers only count pixels, so the order of pixels is not kept. *)
(* A percentage is kept exact as [num, den] (= num / den).                *)
(*                                                                         *)
(* The program state is observed through one history variable, hist,      *)
(* which records, for one worker (obs), the facts one family of           *)
(* properties (track) speaks about; obs and track are fixed in the        *)
(* initial state and no step of the program reads them.                   *)
(*                                                                        *)
(* Spec is the window with its workers.  ScreenMonitorSpec calls the      *)
(* functions of ScreenMonitor on their own, and ServicesSpec those of     *)
(* ConfigManager and AudioManager and the construction of the window;     *)
(* call holds the arguments of the last call and ret its result.          *)
(***************************************************************************)
EXTENDS Integers, Sequences, FiniteSets, TLC

(***************************************************************************)
(* Bounds of the model.                                                    *)
(***************************************************************************)
\* number of worker threads the foreground may create in one run
MaxThreads == 2
\* the history counters (cycles, detecting cycles, alerts) saturate here
HistCap == 3
\* self.consecutive_detections is not counted beyond this
MaxCount == 3

(***************************************************************************)
(* Program constants.                                                      *)
(***************************************************************************)
MIN_CONSECUTIVE_DETECTIONS == 2
BLACK_PIXEL_WARNING_THRESHOLD == 95
max_errors == 5
\* time.sleep(2) after an alert, time.sleep(1) after an exception
COOLDOWN_SLEEP == 2
ERROR_SLEEP == 1
\* self.monitor_thread.join(timeout=1)
JOIN_TIMEOUT == 1
\* near-black cutoff of analyze_screenshot_quality (img_array < 10)
BLACK_CUTOFF == 10
\* validate_configuration probes at most a 100 x 100 area
PROBE_SIZE == 100
BLUE_LOWER == <<0, 70, 75>>
BLUE_UPPER == <<15, 155, 155>>
\* get_screen_size(): the virtual screen of the machine (also its fallback)
ScreenSize == <<1920, 1080>>

(***************************************************************************)
(* Pixels, frames, and what the screen can show.                           *)
(***************************************************************************)
Black == <<0, 0, 0>>
White == <<255, 255, 255>>
Grey == <<128, 128, 128>>
\* a colour inside [BLUE_LOWER, BLUE_UPPER]
Blue == <<10, 100, 120>>

Scenes == {"black", "radar", "blue", "plain"}

\* the n pixels the display shows in the region, for each scene
ScenePixels(scene, n) ==
  CASE scene = "black" -> << <<Black, n>> >>
    [] scene = "radar" -> << <<White, n \div 5>>, <<Blue, n - (n \div 5)>> >>
    [] scene = "blue" -> << <<Blue, n>> >>
    [] OTHER -> << <<Grey, n>> >>

\* Image.new("RGB", (width, height), (0, 0, 0))
BlackImage(width, height) ==
  [width |-> width, height |-> height, pixels |-> << <<Black, width * height>> >>]

\* Image.frombytes("RGB", screenshot.size, ...) of a grab of the region
GrabbedImage(scene, width, height) ==
  [width |-> width, height |-> height, pixels |-> ScenePixels(scene, width * height)]

NoImage == [width |-> 0, height |-> 0, pixels |-> << >>]

RECURSIVE SumSeq(_)
SumSeq(s) == IF s = << >> THEN 0 ELSE Head(s) + SumSeq(Tail(s))

\* image.size: number of pixels
TotalPixels(image) == SumSeq([i \in 1..Len(image.pixels) |-> image.pixels[i][2]])

\* a grey level that leaves out the channel weights
GrayUnweighted(p) == p[1] + p[2] + p[3]

\* cv2.cvtColor(..., COLOR_RGB2GRAY) on one 8-bit pixel: fixed-point
\* 0.299 R + 0.587 G + 0.114 B, rounded
Gray(p) == (p[1] * 4899 + p[2] * 9617 + p[3] * 1868 + 8192) \div 16384

\* a band that leaves out its bounds
InRangeStrict(p, lower, upper) == \A c \in 1..3 : lower[c] < p[c] /\ p[c] < upper[c]

\* cv2.inRange on one pixel: every channel within [lower, upper], inclusive
InRange(p, lower, upper) == \A c \in 1..3 : lower[c] <= p[c] /\ p[c] <= upper[c]

\* a classifier that counts the pixels at or below the threshold
detect_dark_pixels(image, threshold) ==
  LET dark_pixels == SumSeq([i \in 1..Len(image.pixels) |->
                        IF Gray(image.pixels[i][1]) <= threshold
                        THEN image.pixels[i][2] ELSE 0])
  IN  [num |-> dark_pixels * 100, den |-> TotalPixels(image)]

detect_white_pixels(image, threshold) ==
  LET white_pixels == SumSeq([i \in 1..Len(image.pixels) |->
                        IF Gray(image.pixels[i][1]) >= threshold
                        THEN image.pixels[i][2] ELSE 0])
  IN  [num |-> white_pixels * 100, den |-> TotalPixels(image)]

detect_blue_pixels(image) ==
  LET blue_pixels == SumSeq([i \in 1..Len(image.pixels) |->
                       IF InRange(image.pixels[i][1], BLUE_LOWER, BLUE_UPPER)
                       THEN image.pixels[i][2] ELSE 0])
  IN  [num |-> blue_pixels * 100, den |-> image.width * image.height]

\* a quality check that rejects a frame at the warning threshold itself
analyze_screenshot_quality_strict(image) ==
  LET black_pixels == SumSeq([i \in 1..Len(image.pixels) |->
                        IF \A c \in 1..3 : image.pixels[i][1][c] < BLACK_CUTOFF
                        THEN image.pixels[i][2] ELSE 0])
      black_percentage == [num |-> black_pixels * 100,
                           den |-> image.width * image.height]
  IN  [is_valid |-> black_percentage.num
                      < BLACK_PIXEL_WARNING_THRESHOLD * black_percentage.den,
       black_percentage |-> black_percentage]

analyze_screenshot_quality(image) ==
  LET black_pixels == SumSeq([i \in 1..Len(image.pixels) |->
                        IF \A c \in 1..3 : image.pixels[i][1][c] < BLACK_CUTOFF
                        THEN image.pixels[i][2] ELSE 0])
      black_percentage == [num |-> black_pixels * 100,
                           den |-> image.width * image.height]
  IN  [is_valid |-> black_percentage.num
                      <= BLACK_PIXEL_WARNING_THRESHOLD * black_percentage.den,
       black_percentage |-> black_percentage]

\* a white test that accepts the epsilon itself
WhiteDetectedInclusive(white_percentage) ==
  white_percentage.num * 10 >= white_percentage.den

\* white_detected = white_percentage > 0.1
WhiteDetected(white_percentage) == white_percentage.num * 10 > white_percentage.den
\* blue_detected = blue_percentage >= self.config.blue_threshold
BlueDetected(blue_percentage, blue_threshold) ==
  blue_percentage.num >= blue_threshold * blue_percentage.den


(***************************************************************************)
(* The entry fields of the form.  A field holds text; int()/float() of a   *)
(* text that is no literal raises ValueError.                              *)
(***************************************************************************)
Literals == {"0", "1", "3", "50", "60", "100", "101", "200", "256"}

\* int(s) / float(s) of a literal
NumberOf(s) ==
  CASE s = "0" -> 0 [] s = "1" -> 1 [] s = "3" -> 3 [] s = "50" -> 50
    [] s = "60" -> 60 [] s = "100" -> 100 [] s = "101" -> 101
    [] s = "200" -> 200 [] s = "256" -> 256

FieldNames == {"x_var", "y_var", "width_var", "height_var", "threshold_var",
               "blue_threshold_var", "interval_var"}

InputA == [x_var |-> "0", y_var |-> "0", width_var |-> "100", height_var |-> "100",
           threshold_var |-> "200", blue_threshold_var |-> "50", interval_var |-> "1"]
InputB == [x_var |-> "100", y_var |-> "50", width_var |-> "100", height_var |-> "100",
           threshold_var |-> "50", blue_threshold_var |-> "60", interval_var |-> "3"]

\* what the form may hold when a handler reads it
GuiInputs == {InputA, InputB,
              [InputA EXCEPT !.width_var = "0"],
              [InputA EXCEPT !.height_var = "0"],
              [InputA EXCEPT !.threshold_var = "256"],
              [InputA EXCEPT !.blue_threshold_var = "101"],
              [InputA EXCEPT !.interval_var = "0"],
              [InputA EXCEPT !.x_var = "abc"]}

\* validate_inputs(): every field parses and the ranges hold
validate_inputs(g) ==
  /\ \A f \in FieldNames : g[f] \in Literals
  /\ ~(NumberOf(g.width_var) <= 0 \/ NumberOf(g.height_var) <= 0)
  /\ 0 <= NumberOf(g.threshold_var) /\ NumberOf(g.threshold_var) <= 255
  /\ 0 <= NumberOf(g.blue_threshold_var) /\ NumberOf(g.blue_threshold_var) <= 100
  /\ ~(NumberOf(g.interval_var) <= 0)

\* the MonitorConfig update_monitor_area assigns from the fields
ConfigOf(g) ==
  [x |-> NumberOf(g.x_var), y |-> NumberOf(g.y_var),
   width |-> NumberOf(g.width_var), height |-> NumberOf(g.height_var),
   white_threshold |-> NumberOf(g.threshold_var),
   blue_threshold |-> NumberOf(g.blue_threshold_var),
   check_interval |-> NumberOf(g.interval_var)]

(***************************************************************************)
(* State.  The text of the form is an input of the handler that reads it   *)
(* (the operator may retype it between any two handlers).                  *)
(***************************************************************************)
MainThread == 0
Threads == 1..MaxThreads
AllThreads == 0..MaxThreads

VARIABLES
  monitoring,              \* self.monitoring
  monitor_thread,          \* self.monitor_thread: 0 is None
  consecutive_detections,  \* self.consecutive_detections
  config,                  \* self.config
  start_button,            \* state of self.start_button
  stop_button,             \* state of self.stop_button
  main_pc,                 \* where the foreground thread is
  pc,                      \* pc[t]: where worker thread t is
  error_count,             \* error_count[t]: the local of monitor_screen
  screenshot,              \* screenshot[t]: the local of monitor_screen
  mss_instance,            \* _thread_local.mss_instance of each thread
  obs,                     \* the worker whose history is recorded
  track,                   \* which history of it is recorded
  hist,                    \* the history
  presets,                 \* ConfigManager.presets
  presets_file,            \* what the presets file holds
  config_file,             \* what the configuration file holds
  initialized,             \* AudioManager.initialized
  call,                    \* the last call made of a component, its arguments
  ret                      \* and what it returned

vars == <<monitoring, monitor_thread, consecutive_detections, config,
          start_button, stop_button, main_pc, pc, error_count, screenshot,
          mss_instance, obs, track, hist, presets, presets_file, config_file,
          initialized, call, ret>>

\* the state of the window and its workers, and the state of the components
\* exercised on their own
program == <<monitoring, monitor_thread, consecutive_detections, config,
             start_button, stop_button, main_pc, pc, error_count, screenshot,
             mss_instance, obs, track, hist>>
components == <<presets, presets_file, config_file, initialized, call, ret>>

gui_vars == <<monitoring, monitor_thread, config, start_button, stop_button,
              main_pc>>
buttons == <<start_button, stop_button>>
locals == <<error_count, screenshot>>
observer == <<obs, track, components>>

\* a worker is in monitor_screen at these positions, and has left it at those
Live == {"init", "loop", "classify", "alert", "interval", "except"}
Terminated == {"done", "crashed"}

Sat(n) == IF n >= HistCap THEN HistCap ELSE n + 1

\* One history is recorded in a run, chosen by track, of one worker, obs.
\* The kind of a cycle: "D" detected both conditions, "N" classified
\* negative, "Q" rejected by the quality check, "E" ended in an exception.
\*   "reset":    kind: the kind of the last cycle finished
\*   "debounce": inScope: no cycle ended in an exception and the detecting
\*               cycles are at most MIN_CONSECUTIVE_DETECTIONS, consecutive;
\*               nDet of them; nAlert alerts; lastD: the last cycle detected
\*   "endtoend": inScope: every cycle classified a frame uniformly of a
\*               colour of the blue band, under white_threshold 200 and
\*               blue_threshold 50; nCycles of them, nDet detecting; nAlert
\*   "quality":  inScope: every cycle was rejected by the quality check;
\*               nCycles of them
\*   "failures": failRun: the consecutive cycles just past whose grab failed
\*   "stop":     stopped: stop was requested while obs ran, no start since;
\*               stopExcess seconds of cool-down or backoff and
\*               stopIntervals sleeps of check_interval begun since
\*   "start":    invalidStart: the last handler run was start_monitoring,
\*               with entered values that fail validate_inputs
\*   "exceptions": excRun: the consecutive cycles just past that ended in
\*               an exception; failRun: the consecutive cycles just past in
\*               which take_screenshot raised; kind: how the last cycle
\*               whose capture returned a frame ended ("ok" while it runs)
Tracks == {"reset", "debounce", "endtoend", "quality", "failures", "stop",
           "start", "exceptions"}

NoHist ==
  [kind |-> "none", lastD |-> FALSE, inScope |-> TRUE, nCycles |-> 0,
   nDet |-> 0, nAlert |-> 0, failRun |-> 0, stopped |-> FALSE,
   stopExcess |-> 0, stopIntervals |-> 0, invalidStart |-> FALSE,
   excRun |-> 0]

OutOfScope == [NoHist EXCEPT !.inScope = FALSE]

\* __init__: Idle, no worker; self.config is the saved (or default)
\* configuration, here the values of InputA
WindowInit ==
  /\ monitoring = FALSE
  /\ monitor_thread = 0
  /\ consecutive_detections = 0
  /\ config = ConfigOf(InputA)
  /\ start_button = "normal"
  /\ stop_button = "disabled"
  /\ main_pc = "idle"
  /\ pc = [t \in Threads |-> "unborn"]
  /\ error_count = [t \in Threads |-> 0]
  /\ screenshot = [t \in Threads |-> NoImage]
  /\ mss_instance = [t \in AllThreads |-> "unset"]

\* no call of a component yet
NoCall == [fn |-> "none"]

\* a file that does not exist, and the empty preset mapping
AbsentFile == [state |-> "absent"]
NoPresets == [name \in {} |-> NoCall]

\* the components as constructed: no preset, no file, audio initialized
ComponentsInit ==
  /\ presets = NoPresets
  /\ presets_file = AbsentFile
  /\ config_file = AbsentFile
  /\ initialized = TRUE
  /\ call = NoCall
  /\ ret = NoCall

Init ==
  /\ WindowInit
  /\ obs \in Threads
  /\ track \in Tracks
  /\ track = "start" => obs = 1
  /\ hist = NoHist
  /\ ComponentsInit

(***************************************************************************)
(* ScreenMonitor: the capture handle of the calling thread, and capture.   *)
(***************************************************************************)
\* what a capture can meet: the display shows a scene; sct.grab raises and
\* the black fallback image is returned; or sct.grab raises and building
\* the fallback image raises too, so the exception leaves take_screenshot
GrabOutcomes == Scenes \cup {"grab_error", "fallback_error"}

\* a handle kept in one slot that every thread sees
get_mss_instance_shared(t) == [u \in AllThreads |-> "open"]

\* get_mss_instance(): the calling thread's handle, created on first use
get_mss_instance(t) == [mss_instance EXCEPT ![t] = "open"]

\* cleanup(): closes the calling thread's handle, if it has one
cleanup(m, t) == IF m[t] = "open" THEN [m EXCEPT ![t] = "closed"] ELSE m

\* take_screenshot(x, y, width, height) under a capture outcome
take_screenshot(outcome, x, y, width, height) ==
  IF outcome \in Scenes
  THEN [raised |-> FALSE, image |-> GrabbedImage(outcome, width, height)]
  ELSE IF outcome = "grab_error"
  THEN [raised |-> FALSE, image |-> BlackImage(width, height)]
  ELSE [raised |-> TRUE, image |-> NoImage]

(***************************************************************************)
(* stop_monitoring() called by thread t.  join(timeout=1) on the calling   *)
(* thread itself raises RuntimeError before the buttons are touched.       *)
(***************************************************************************)
JoinRaises(t) == monitor_thread # 0 /\ monitor_thread = t

\* the tail of stop_monitoring, after the join returned
RestoreControls ==
  /\ start_button' = "normal"
  /\ stop_button' = "disabled"

(***************************************************************************)
(* The history of worker obs.                                              *)
(***************************************************************************)
\* the grab of a cycle failed, or not
Grabbed(h, failed) ==
  IF track = "failures"
  THEN [h EXCEPT !.failRun = IF ~failed THEN 0
                             ELSE IF h.failRun >= max_errors THEN h.failRun
                             ELSE h.failRun + 1]
  ELSE h

\* take_screenshot of a cycle raised, or returned a frame
Captured(h, raised) ==
  IF track = "exceptions"
  THEN IF raised
       THEN [h EXCEPT !.failRun = IF h.failRun >= max_errors THEN h.failRun
                                  ELSE h.failRun + 1]
       ELSE [h EXCEPT !.failRun = 0, !.kind = "ok"]
  ELSE h

\* a frame is uniformly of a colour of the blue band
UniformBlue(image) ==
  /\ image # NoImage
  /\ \A i \in 1..Len(image.pixels) :
       image.pixels[i][2] > 0 => InRange(image.pixels[i][1], BLUE_LOWER, BLUE_UPPER)

\* a cycle ends with kind k; e2e: it classified a uniformly blue frame
\* under white_threshold 200 and blue_threshold 50
EndCycle(h, k, e2e) ==
  CASE track = "reset" -> [h EXCEPT !.kind = k]
    [] track = "debounce" ->
         IF ~h.inScope THEN h
         ELSE IF \/ k = "E"
                 \/ k = "D" /\ h.nDet >= 1 /\ ~h.lastD
                 \/ k = "D" /\ h.nDet >= MIN_CONSECUTIVE_DETECTIONS
         THEN OutOfScope
         ELSE [h EXCEPT !.lastD = (k = "D"),
                        !.nDet = IF k = "D" THEN h.nDet + 1 ELSE h.nDet]
    [] track = "endtoend" ->
         IF ~h.inScope THEN h
         ELSE IF ~e2e \/ k = "E" THEN OutOfScope
         ELSE [h EXCEPT !.nCycles = Sat(h.nCycles),
                        !.nDet = IF k = "D" THEN Sat(h.nDet) ELSE h.nDet]
    [] track = "exceptions" ->
         [h EXCEPT !.excRun = IF k # "E" THEN 0
                              ELSE IF h.excRun >= max_errors THEN h.excRun
                              ELSE h.excRun + 1,
                   !.kind = IF h.kind = "ok" THEN k ELSE h.kind]
    [] track = "quality" ->
         IF ~h.inScope THEN h
         ELSE IF k # "Q" THEN OutOfScope
         ELSE [h EXCEPT !.nCycles = Sat(h.nCycles)]
    [] OTHER -> h

\* play_alert_sound() is invoked
Alerted(h) ==
  IF track \in {"debounce", "endtoend"} /\ h.inScope
  THEN [h EXCEPT !.nAlert = Sat(h.nAlert)]
  ELSE h

\* a sleep begins: excess seconds of cool-down or backoff, intervals sleeps
\* of check_interval
Slept(h, excess, intervals) ==
  IF track = "stop" /\ h.stopped
  THEN [h EXCEPT !.stopExcess = h.stopExcess + excess,
                 !.stopIntervals = h.stopIntervals + intervals]
  ELSE h

\* the worker leaves monitor_screen
Ended(h) == IF track \in {"start", "quality"} THEN h ELSE NoHist

\* a handler of the foreground begins
Handled(h) == IF track = "start" THEN [h EXCEPT !.invalidStart = FALSE] ELSE h

\* hist' when worker w takes a step that changes the history of w to f
Record(w, f) == hist' = IF w = obs THEN f ELSE hist

(***************************************************************************)
(* monitor_screen, run by worker thread w.  A step runs up to the next     *)
(* point where the worker reads self.monitoring, reads the thresholds of   *)
(* self.config, or sleeps.                                                 *)
(***************************************************************************)
\* the workers are daemon threads: they end with the process
ProcessAlive == main_pc # "closed"

\* lines 420-423
MonitorInit(w) ==
  /\ pc[w] = "init"
  /\ ProcessAlive
  /\ consecutive_detections' = 0
  /\ error_count' = [error_count EXCEPT ![w] = 0]
  /\ pc' = [pc EXCEPT ![w] = "loop"]
  /\ UNCHANGED <<gui_vars, screenshot, mss_instance, observer, hist>>

\* a loop that does not test self.monitoring
LoopTestAlways(m) == TRUE

\* the test of the while loop (line 425)
LoopTest(m) == m

\* line 425 found the test false: monitor_screen returns
LoopExit(w) ==
  /\ pc[w] = "loop"
  /\ ProcessAlive
  /\ ~LoopTest(monitoring)
  /\ pc' = [pc EXCEPT ![w] = "done"]
  /\ error_count' = [error_count EXCEPT ![w] = 0]
  /\ Record(w, Ended(hist))
  /\ UNCHANGED <<gui_vars, consecutive_detections, screenshot, mss_instance,
                 observer>>

\* a budget that is never spent
TooManyErrorsNever(ec) == FALSE

\* "if error_count >= max_errors" (lines 434 and 504)
TooManyErrors(ec) == ec >= max_errors

\* the branch "if screenshot is None" (lines 432-440)
NoScreenshot(w) ==
  /\ error_count' = [error_count EXCEPT ![w] = error_count[w] + 1]
  /\ UNCHANGED <<screenshot, hist, consecutive_detections, monitor_thread,
                 config, main_pc>>
  /\ IF TooManyErrors(error_count[w] + 1)
     THEN /\ monitoring' = FALSE
          /\ IF JoinRaises(w)
             THEN /\ pc' = [pc EXCEPT ![w] = "except"]
                  /\ UNCHANGED buttons
             ELSE /\ pc' = [pc EXCEPT ![w] = "done"]
                  /\ RestoreControls
     ELSE /\ pc' = [pc EXCEPT ![w] = "interval"]
          /\ UNCHANGED <<monitoring, buttons>>

\* an error count that a capture does not reset
AfterCaptureKept(ec) == ec

\* the error count after a capture that returned a frame (line 443)
AfterCapture(ec) == 0

\* a rejected frame counted as an error
AfterRejectCounted(ec) == ec + 1

\* the error count after the quality check rejected the frame (lines 447-450)
AfterReject(ec) == ec

\* the counter after the quality check rejected the frame (lines 447-450)
CountReject(n) == n

\* lines 425-450: the test is true; capture, reset of error_count, quality
\* check.  tcl_error: status_var.set raises
Capture(w) ==
  /\ pc[w] = "loop"
  /\ ProcessAlive
  /\ LoopTest(monitoring)
  /\ \E outcome \in GrabOutcomes, tcl_error \in BOOLEAN :
       LET shot == take_screenshot(outcome, config.x, config.y,
                                   config.width, config.height)
           h == Captured(Grabbed(hist, outcome \notin Scenes), shot.raised)
       IN
       /\ mss_instance' = get_mss_instance(w)
       /\ IF shot.raised
          THEN /\ tcl_error = FALSE
               /\ pc' = [pc EXCEPT ![w] = "except"]
               /\ Record(w, EndCycle(h, "E", FALSE))
               /\ UNCHANGED <<gui_vars, consecutive_detections, locals>>
          ELSE IF shot.image = NoImage
          THEN /\ tcl_error = FALSE
               /\ NoScreenshot(w)
          ELSE IF ~analyze_screenshot_quality(shot.image).is_valid
          THEN /\ error_count' = [error_count EXCEPT ![w] =
                                    AfterReject(AfterCapture(error_count[w]))]
               /\ consecutive_detections' = CountReject(consecutive_detections)
               /\ pc' = [pc EXCEPT ![w] = IF tcl_error THEN "except" ELSE "interval"]
               /\ Record(w, EndCycle(h, IF tcl_error THEN "E" ELSE "Q", FALSE))
               /\ UNCHANGED <<gui_vars, screenshot>>
          ELSE /\ tcl_error = FALSE
               /\ error_count' = [error_count EXCEPT ![w] =
                                    AfterCapture(error_count[w])]
               /\ screenshot' = [screenshot EXCEPT ![w] = shot.image]
               /\ pc' = [pc EXCEPT ![w] = "classify"]
               /\ Record(w, h)
               /\ UNCHANGED <<gui_vars, consecutive_detections>>
  /\ UNCHANGED observer

\* the counter after a cycle that detected both conditions (line 478)
CountDetection(n) == n + 1

\* the counter after a cycle that did not (line 486)
CountMiss(n) == 0

\* the test of line 481
ShouldAlert(n) == n >= MIN_CONSECUTIVE_DETECTIONS

\* what a classifier returns when it fails internally (monitor.py lines
\* 96-98, 110-112): 0.0
ZeroRatio == [num |-> 0, den |-> 1]

\* lines 452-453: the two classifiers, each with its own try/except
WhitePercentage(image, threshold, white_fails) ==
  IF white_fails THEN ZeroRatio ELSE detect_white_pixels(image, threshold)
BluePercentage(image, blue_fails) ==
  IF blue_fails THEN ZeroRatio ELSE detect_blue_pixels(image)

\* lines 464-486: the decision of a cycle on the two ratios, with the
\* counter at n
Decide(white_percentage, blue_percentage, blue_threshold, n) ==
  IF /\ WhiteDetected(white_percentage)
     /\ BlueDetected(blue_percentage, blue_threshold)
  THEN [detected |-> TRUE, consecutive_detections |-> CountDetection(n),
        alert |-> ShouldAlert(CountDetection(n))]
  ELSE [detected |-> FALSE, consecutive_detections |-> CountMiss(n),
        alert |-> FALSE]

\* lines 452-495: the two ratios against the thresholds of self.config, and
\* the decision.  tcl_error: status_var.set raises; white_fails, blue_fails:
\* the classifier fails internally
Classify(w) ==
  /\ pc[w] = "classify"
  /\ ProcessAlive
  /\ \E tcl_error \in BOOLEAN, white_fails \in BOOLEAN, blue_fails \in BOOLEAN :
       LET d == Decide(WhitePercentage(screenshot[w], config.white_threshold,
                                       white_fails),
                       BluePercentage(screenshot[w], blue_fails),
                       config.blue_threshold, consecutive_detections)
           e2e == /\ UniformBlue(screenshot[w])
                  /\ config.white_threshold = 200
                  /\ config.blue_threshold = 50
                  /\ ~white_fails /\ ~blue_fails
       IN
       IF d.detected
       THEN /\ consecutive_detections < MaxCount
            /\ consecutive_detections' = d.consecutive_detections
            /\ pc' = [pc EXCEPT ![w] =
                        IF tcl_error THEN "except"
                        ELSE IF d.alert THEN "alert" ELSE "interval"]
            /\ Record(w, EndCycle(hist, IF tcl_error THEN "E" ELSE "D", e2e))
       ELSE /\ consecutive_detections' = d.consecutive_detections
            /\ pc' = [pc EXCEPT ![w] = IF tcl_error THEN "except" ELSE "interval"]
            /\ Record(w, EndCycle(hist, IF tcl_error THEN "E" ELSE "N", e2e))
  /\ screenshot' = [screenshot EXCEPT ![w] = NoImage]
  /\ UNCHANGED <<gui_vars, error_count, mss_instance, observer>>

\* what the playback of audio.py lines 50-63 can meet
PlayOutcomes == {"ok", "playback_error"}

\* a play_alert_sound without the guard of audio.py line 46 and the handler of
\* lines 64-66
play_alert_sound_bare(is_initialized, outcome) ==
  IF is_initialized /\ outcome = "ok"
  THEN [raised |-> FALSE, played |-> TRUE, bell |-> FALSE]
  ELSE [raised |-> TRUE, played |-> FALSE, bell |-> FALSE]

\* play_alert_sound(): the bell when not initialized (audio.py lines 46-48) and when
\* the playback raises (audio.py lines 64-66)
play_alert_sound(is_initialized, outcome) ==
  IF ~is_initialized
  THEN [raised |-> FALSE, played |-> FALSE, bell |-> TRUE]
  ELSE IF outcome = "ok"
  THEN [raised |-> FALSE, played |-> TRUE, bell |-> FALSE]
  ELSE [raised |-> FALSE, played |-> FALSE, bell |-> TRUE]

\* lines 482-484: play_alert_sound(), time.sleep(2).  audio: whether the
\* audio system is initialized when the alert is asked for
Alert(w) ==
  /\ pc[w] = "alert"
  /\ ProcessAlive
  /\ \E audio \in BOOLEAN, outcome \in PlayOutcomes :
       IF play_alert_sound(audio, outcome).raised
       THEN /\ Record(w, hist)
            /\ pc' = [pc EXCEPT ![w] = "except"]
       ELSE /\ Record(w, Slept(Alerted(hist), COOLDOWN_SLEEP, 0))
            /\ pc' = [pc EXCEPT ![w] = "interval"]
  /\ UNCHANGED <<gui_vars, consecutive_detections, locals, mss_instance,
                 observer>>

\* lines 449, 497: time.sleep(self.config.check_interval)
Interval(w) ==
  /\ pc[w] = "interval"
  /\ ProcessAlive
  /\ Record(w, Slept(hist, 0, 1))
  /\ pc' = [pc EXCEPT ![w] = "loop"]
  /\ UNCHANGED <<gui_vars, consecutive_detections, locals, mss_instance,
                 observer>>

\* lines 499-510: the exception handler and its time.sleep(1).  tcl_error:
\* status_var.set raises inside the handler, which ends the thread; so does
\* the RuntimeError of stop_monitoring's join on the calling thread
Except(w) ==
  /\ pc[w] = "except"
  /\ ProcessAlive
  /\ UNCHANGED <<screenshot, consecutive_detections, mss_instance,
                 monitor_thread, config, main_pc, observer>>
  /\ \E tcl_error \in BOOLEAN :
       IF tcl_error
       THEN /\ pc' = [pc EXCEPT ![w] = "crashed"]
            /\ error_count' = [error_count EXCEPT ![w] = 0]
            /\ Record(w, Ended(hist))
            /\ UNCHANGED <<monitoring, buttons>>
       ELSE IF TooManyErrors(error_count[w] + 1)
       THEN /\ monitoring' = FALSE
            /\ error_count' = [error_count EXCEPT ![w] = 0]
            /\ Record(w, Ended(hist))
            /\ IF JoinRaises(w)
               THEN /\ pc' = [pc EXCEPT ![w] = "crashed"]
                    /\ UNCHANGED buttons
               ELSE /\ pc' = [pc EXCEPT ![w] = "done"]
                    /\ RestoreControls
       ELSE /\ pc' = [pc EXCEPT ![w] = "loop"]
            /\ error_count' = [error_count EXCEPT ![w] = error_count[w] + 1]
            /\ Record(w, Slept(hist, ERROR_SLEEP, 0))
            /\ UNCHANGED <<monitoring, buttons>>

Worker(w) ==
  \/ MonitorInit(w) \/ LoopExit(w) \/ Capture(w) \/ Classify(w)
  \/ Alert(w) \/ Interval(w) \/ Except(w)

(***************************************************************************)
(* The foreground: the handlers the Tk main loop runs, one at a time, each *)
(* with the text g the form holds.                                         *)
(***************************************************************************)
\* an update that assigns whatever parses, without the range checks
update_monitor_area_unranged(c, g) ==
  IF \A f \in FieldNames : g[f] \in Literals THEN ConfigOf(g) ELSE c

\* self.config after update_monitor_area(): untouched when validate_inputs fails
update_monitor_area(c, g) == IF validate_inputs(g) THEN ConfigOf(g) ELSE c

\* "Update Area"
UpdateArea(g) ==
  /\ main_pc = "idle"
  /\ config' = update_monitor_area(config, g)
  /\ config' # config
  /\ hist' = Handled(hist)
  /\ UNCHANGED <<monitoring, monitor_thread, consecutive_detections, buttons,
                 main_pc, pc, locals, mss_instance, observer>>

Min(a, b) == IF a <= b THEN a ELSE b

\* the region of configuration c, and the region validate_configuration
\* takes its test capture of (lines 219-221)
RegionOf(c) == [x |-> c.x, y |-> c.y, width |-> c.width, height |-> c.height]
ProbeRegion(c) ==
  [x |-> c.x, y |-> c.y, width |-> Min(c.width, PROBE_SIZE),
   height |-> Min(c.height, PROBE_SIZE)]

\* validate_configuration() of configuration c, the test capture meeting outcome
validate_configuration(c, outcome) ==
  LET screen_width == ScreenSize[1]
      screen_height == ScreenSize[2]
      probe == ProbeRegion(c)
      test_screenshot == take_screenshot(outcome, probe.x, probe.y,
                                         probe.width, probe.height)
  IN  /\ ~(\/ c.x < -(screen_width * 2) \/ c.x > screen_width * 3
           \/ c.y < -screen_height \/ c.y > screen_height * 2)
      /\ ~test_screenshot.raised
      /\ test_screenshot.image # NoImage
      /\ analyze_screenshot_quality(test_screenshot.image).is_valid

\* the thread object threading.Thread(...) creates
NewThread ==
  CHOOSE t \in Threads : pc[t] = "unborn" /\ \A u \in Threads : u < t => pc[u] # "unborn"

\* whether start_monitoring goes on to start a worker, given the results of
\* validate_configuration and of validate_inputs on the entered fields
StartProceeds(config_valid, inputs_valid) == config_valid

\* the history after start_monitoring read the fields g
Started(h, g) ==
  CASE track = "start" -> [h EXCEPT !.invalidStart = ~validate_inputs(g)]
    [] track = "stop" -> [h EXCEPT !.stopped = FALSE, !.stopExcess = 0,
                                   !.stopIntervals = 0]
    [] OTHER -> h

\* start_monitoring() (button or F1)
Start(g) ==
  /\ main_pc = "idle"
  /\ ~monitoring
  /\ \E outcome \in GrabOutcomes :
       /\ mss_instance' = get_mss_instance(MainThread)
       /\ IF StartProceeds(validate_configuration(config, outcome),
                           validate_inputs(g))
          THEN /\ \E t \in Threads : pc[t] = "unborn"
               /\ config' = update_monitor_area(config, g)
               /\ monitoring' = TRUE
               /\ monitor_thread' = NewThread
               /\ pc' = [pc EXCEPT ![NewThread] = "init"]
               /\ start_button' = "disabled"
               /\ stop_button' = "normal"
               /\ hist' = Started(hist, g)
               /\ UNCHANGED <<consecutive_detections, main_pc, locals, observer>>
          ELSE /\ hist' = Started(hist, g)
               /\ <<mss_instance', hist'>> # <<mss_instance, hist>>
               /\ UNCHANGED <<monitoring, monitor_thread, consecutive_detections,
                              config, buttons, main_pc, pc, locals, observer>>

\* join(timeout=1) returns at once when there is no thread or it has ended
JoinReturnsAtOnce ==
  IF monitor_thread = 0 THEN TRUE ELSE pc[monitor_thread] \in Terminated

\* join(timeout=1) times out when the worker is bound to sleep longer than
\* the timeout before it reads self.monitoring again: the cool-down, or a
\* check_interval above the timeout
JoinCanTimeOut ==
  IF monitor_thread = 0 THEN FALSE
  ELSE \/ pc[monitor_thread] = "alert"
       \/ /\ pc[monitor_thread] \in {"classify", "interval"}
          /\ config.check_interval > JOIN_TIMEOUT

\* the history after a stop request
StopRequested(h) ==
  CASE track = "start" -> [h EXCEPT !.invalidStart = FALSE]
    [] track = "stop" /\ pc[obs] \in Live -> [h EXCEPT !.stopped = TRUE]
    [] OTHER -> h

\* stop_monitoring() up to the join (button, F2, or on_closing when closing)
StopRequest(closing) ==
  /\ main_pc = "idle"
  /\ monitoring' = FALSE
  /\ hist' = StopRequested(hist)
  /\ main_pc' = IF closing THEN "closing" ELSE "joining"
  /\ UNCHANGED <<monitor_thread, consecutive_detections, config, buttons,
                 pc, locals, mss_instance, observer>>

\* stop_monitoring() from the return of the join
StopFinish ==
  /\ main_pc = "joining"
  /\ (JoinReturnsAtOnce \/ JoinCanTimeOut)
  /\ RestoreControls
  /\ main_pc' = "idle"
  /\ UNCHANGED <<monitoring, monitor_thread, consecutive_detections, config,
                 pc, locals, mss_instance, observer, hist>>

\* on_closing() from the return of the join: cleanup_resources(), destroy()
CloseFinish ==
  /\ main_pc = "closing"
  /\ (JoinReturnsAtOnce \/ JoinCanTimeOut)
  /\ RestoreControls
  /\ mss_instance' = cleanup(mss_instance, MainThread)
  /\ main_pc' = "closed"
  /\ UNCHANGED <<monitoring, monitor_thread, consecutive_detections, config,
                 pc, locals, observer, hist>>

Foreground ==
  \/ \E g \in GuiInputs : UpdateArea(g)
  \/ \E g \in GuiInputs : Start(g)
  \/ \E closing \in BOOLEAN : StopRequest(closing)
  \/ StopFinish
  \/ CloseFinish

Next ==
  \/ Foreground
  \/ \E w \in Threads : Worker(w)

Spec == Init /\ [][Next]_vars

(***************************************************************************)
(* The functions of ScreenMonitor on their own: every step calls one of    *)
(* them with arguments drawn from the sets below; call holds the           *)
(* arguments and ret the result.  The window stays as constructed.         *)
(***************************************************************************)
IdleInit ==
  /\ WindowInit
  /\ obs = 1
  /\ track = "reset"
  /\ hist = NoHist
  /\ ComponentsInit

\* side of the frames the classifiers are called with
FrameSide == 10
\* side of a region too large to allocate a fallback image for
HugeSide == 30000

\* the regions take_screenshot is called with
Regions == {[x |-> 0, y |-> 0, width |-> 1, height |-> 1],
            [x |-> 0, y |-> 0, width |-> 100, height |-> 100],
            [x |-> 100, y |-> 50, width |-> 275, height |-> 200],
            [x |-> 0, y |-> 0, width |-> HugeSide, height |-> HugeSide]}

\* pixels at and around the cutoffs of the classifiers
NearBlack == <<9, 9, 9>>
OffBlack == <<9, 9, 10>>
BelowBlue == <<0, 69, 75>>
AboveBlue == <<16, 155, 155>>
Palette == {Black, White, Grey, Blue, NearBlack, OffBlack, BLUE_LOWER,
            BLUE_UPPER, BelowBlue, AboveBlue}

\* a FrameSide x FrameSide frame of k pixels p and the rest q
Frame(p, q, k) ==
  [width |-> FrameSide, height |-> FrameSide,
   pixels |-> << <<p, k>>, <<q, FrameSide * FrameSide - k>> >>]

\* how many pixels of a frame are of its first colour
Splits == {4, 5, 50}
Frames == {Frame(p, q, k) : p \in Palette, q \in Palette, k \in Splits}

\* the thresholds detect_white_pixels is called with
Thresholds == {0, 75, 76, 128, 200, 255}
\* and the frames: two colours out of four, split unevenly or in halves
GreyFrames == {Frame(p, q, k) : p \in {Black, White, Grey, Blue},
                               q \in {Black, White, Grey, Blue}, k \in {5, 50}}

TakeScreenshot ==
  \E outcome \in GrabOutcomes, r \in Regions :
    /\ call' = [fn |-> "take_screenshot", outcome |-> outcome, x |-> r.x,
                y |-> r.y, width |-> r.width, height |-> r.height]
    /\ ret' = take_screenshot(outcome, r.x, r.y, r.width, r.height)
    /\ UNCHANGED <<program, presets, presets_file, config_file, initialized>>

AnalyzeQuality ==
  \E image \in Frames :
    /\ call' = [fn |-> "analyze_screenshot_quality", image |-> image]
    /\ ret' = analyze_screenshot_quality(image)
    /\ UNCHANGED <<program, presets, presets_file, config_file, initialized>>

\* two calls on one frame, with thresholds t1 <= t2
DetectWhite ==
  \E image \in GreyFrames, t1 \in Thresholds, t2 \in Thresholds :
    /\ t1 <= t2
    /\ call' = [fn |-> "detect_white_pixels", image |-> image,
                t1 |-> t1, t2 |-> t2]
    /\ ret' = [lo |-> detect_white_pixels(image, t1),
               hi |-> detect_white_pixels(image, t2)]
    /\ UNCHANGED <<program, presets, presets_file, config_file, initialized>>

DetectBlue ==
  \E image \in Frames :
    /\ call' = [fn |-> "detect_blue_pixels", image |-> image]
    /\ ret' = detect_blue_pixels(image)
    /\ UNCHANGED <<program, presets, presets_file, config_file, initialized>>

\* the frames, white thresholds and blue thresholds a cycle is run with
\* a 40 x 25 frame of white_pixels white and blue_pixels blue pixels, the
\* rest grey: one pixel is 0.1 % of it
FineFrame(white_pixels, blue_pixels) ==
  [width |-> 40, height |-> 25,
   pixels |-> << <<White, white_pixels>>, <<Blue, blue_pixels>>,
                 <<Grey, 1000 - white_pixels - blue_pixels>> >>]

CycleFrames == {Frame(White, Blue, 50), Frame(Blue, Blue, 50),
                Frame(White, White, 50), FineFrame(1, 500),
                FineFrame(2, 500), FineFrame(2, 499)}
BlueThresholds == {0, 50, 100}

\* monitor_screen lines 452-486 on one frame: the two classifiers, either
\* of which may fail internally, and the decision
Cycle ==
  \E image \in CycleFrames, white_fails \in BOOLEAN, blue_fails \in BOOLEAN,
     blue_threshold \in BlueThresholds, n \in 0..(MaxCount - 1) :
    /\ call' = [fn |-> "cycle", image |-> image, white_fails |-> white_fails,
                blue_fails |-> blue_fails, white_threshold |-> 200,
                blue_threshold |-> blue_threshold, n |-> n]
    /\ ret' = Decide(WhitePercentage(image, 200, white_fails),
                     BluePercentage(image, blue_fails), blue_threshold, n)
    /\ UNCHANGED <<program, presets, presets_file, config_file, initialized>>

ScreenMonitorNext ==
  \/ TakeScreenshot
  \/ AnalyzeQuality
  \/ DetectWhite
  \/ DetectBlue
  \/ Cycle

ScreenMonitorSpec == IdleInit /\ [][ScreenMonitorNext]_vars

(***************************************************************************)
(* The capture handles on their own: any thread asks for its handle or     *)
(* cleans up; call holds the calling thread and the handles before the     *)
(* call, ret whether a handle was created.                                 *)
(***************************************************************************)
GetMssInstance ==
  \E t \in AllThreads :
    /\ call' = [fn |-> "get_mss_instance", thread |-> t, before |-> mss_instance]
    /\ ret' = [created |-> mss_instance[t] # "open"]
    /\ mss_instance' = get_mss_instance(t)
    /\ UNCHANGED <<gui_vars, consecutive_detections, pc, locals, obs, track,
                   hist, presets, presets_file, config_file, initialized>>

CleanupHandle ==
  \E t \in AllThreads :
    /\ call' = [fn |-> "cleanup", thread |-> t, before |-> mss_instance]
    /\ ret' = [created |-> FALSE]
    /\ mss_instance' = cleanup(mss_instance, t)
    /\ UNCHANGED <<gui_vars, consecutive_detections, pc, locals, obs, track,
                   hist, presets, presets_file, config_file, initialized>>

HandlesNext ==
  \/ GetMssInstance
  \/ CleanupHandle

HandlesSpec == IdleInit /\ [][HandlesNext]_vars

(***************************************************************************)
(* ConfigManager, AudioManager and the construction of the window on       *)
(* their own.  A field of a MonitorConfig holds a Python number: an int,   *)
(* or a float kept in tenths, or the float nan.  A file is absent, holds   *)
(* a JSON text, or was truncated by a write that failed.                   *)
(***************************************************************************)
IntVal(n) == [type |-> "int", v |-> n]
FloatVal(tenths) == [type |-> "float", v |-> tenths]
NaN == [type |-> "nan", v |-> 0]

\* Python's ==  on two numbers: an int equals the float of the same value;
\* nan equals nothing, itself included
PyEq(a, b) ==
  /\ a.type # "nan" /\ b.type # "nan"
  /\ (IF a.type = "int" THEN a.v * 10 ELSE a.v)
       = (IF b.type = "int" THEN b.v * 10 ELSE b.v)

DEFAULT_MONITOR_X == 1535
DEFAULT_MONITOR_Y == 730
DEFAULT_MONITOR_SIZE == 275
DEFAULT_WHITE_THRESHOLD == 200
DEFAULT_BLUE_THRESHOLD == FloatVal(600)
DEFAULT_CHECK_INTERVAL == FloatVal(5)

ConfigKeys == {"x", "y", "width", "height", "white_threshold",
               "blue_threshold", "check_interval"}

\* MonitorConfig(x=..., y=..., width=..., height=...): the other fields at
\* their defaults
MonitorConfig(x, y, width, height) ==
  [x |-> x, y |-> y, width |-> width, height |-> height,
   white_threshold |-> IntVal(DEFAULT_WHITE_THRESHOLD),
   blue_threshold |-> DEFAULT_BLUE_THRESHOLD,
   check_interval |-> DEFAULT_CHECK_INTERVAL]

\* MonitorConfig()
DefaultMonitorConfig ==
  MonitorConfig(IntVal(DEFAULT_MONITOR_X), IntVal(DEFAULT_MONITOR_Y),
                IntVal(DEFAULT_MONITOR_SIZE), IntVal(DEFAULT_MONITOR_SIZE))

\* json.dump of a number: an int prints its digits, a float its shortest
\* repr (with a fraction part), nan prints NaN
JsonNumber(value) ==
  CASE value.type = "int" -> [token |-> "integer", digits |-> value.v]
    [] value.type = "float" -> [token |-> "real", digits |-> value.v]
    [] OTHER -> [token |-> "NaN", digits |-> 0]

\* json.load of a number token: digits give an int, digits with a fraction
\* part a float, NaN the float nan
ParseNumber(t) ==
  CASE t.token = "integer" -> IntVal(t.digits)
    [] t.token = "real" -> FloatVal(t.digits)
    [] OTHER -> NaN

\* json.dump / json.load of a dict of numbers
json_dump(data) == [k \in DOMAIN data |-> JsonNumber(data[k])]
json_load(text) == [k \in DOMAIN text |-> ParseNumber(text[k])]

\* a dict that leaves out check_interval
config_data_short(c) == [k \in ConfigKeys \ {"check_interval"} |-> c[k]]

\* the dict save_config_to_file and add_preset build from a MonitorConfig
config_data(c) == [k \in ConfigKeys |-> c[k]]

\* dict.get(key, default)
Get(d, key, default) == IF key \in DOMAIN d THEN d[key] ELSE default

\* what a write can meet: it succeeds; open(..., 'w') raises and the file
\* is left as it was; or the file is opened (truncated) and the dump raises
WriteOutcomes == {"ok", "open_error", "write_error"}

TruncatedFile == [state |-> "truncated"]
TextFile(text) == [state |-> "text", text |-> text]

\* with open(path, 'w') as f: json.dump(data, f), text being the dump
WriteJson(file, text, outcome) ==
  CASE outcome = "ok" -> [raised |-> FALSE, file |-> TextFile(text)]
    [] outcome = "open_error" -> [raised |-> TRUE, file |-> file]
    [] OTHER -> [raised |-> TRUE, file |-> TruncatedFile]

\* save_config_to_file(config): the exception of a failed write is re-raised
save_config_to_file(file, c, outcome) ==
  WriteJson(file, json_dump(config_data(c)), outcome)

\* load_config_from_file(): MonitorConfig() when the file is absent or
\* cannot be parsed; else every key present in the file replaces the default
load_config_from_file(file) ==
  IF file.state # "text"
  THEN DefaultMonitorConfig
  ELSE LET data == json_load(file.text)
       IN  [k \in ConfigKeys |-> Get(data, k, DefaultMonitorConfig[k])]

\* the configurations saved: the defaults; one that differs from the
\* defaults in every field; one with ints in the float fields; one whose
\* check_interval is nan (float("nan") passes validate_inputs)
ConfigFull ==
  [x |-> IntVal(100), y |-> IntVal(50), width |-> IntVal(300),
   height |-> IntVal(200), white_threshold |-> IntVal(180),
   blue_threshold |-> FloatVal(455), check_interval |-> FloatVal(10)]
ConfigInts ==
  [ConfigFull EXCEPT !.blue_threshold = IntVal(0), !.check_interval = IntVal(2)]
ConfigNaN == [ConfigFull EXCEPT !.check_interval = NaN]
Configs == {DefaultMonitorConfig, ConfigFull, ConfigInts, ConfigNaN}

SaveConfig ==
  \E c \in Configs, outcome \in WriteOutcomes :
    LET r == save_config_to_file(config_file, c, outcome)
    IN  /\ config_file' = r.file
        /\ call' = [fn |-> "save_config_to_file", config |-> c]
        /\ ret' = [raised |-> r.raised]
        /\ UNCHANGED <<program, presets, presets_file, initialized>>

\* load_config_from_file(); the call remembers whether it follows a save
\* that returned, and the configuration that was saved
LoadConfig ==
  LET after_save == call.fn = "save_config_to_file" /\ ~ret.raised
  IN  /\ call' = [fn |-> "load_config_from_file", after_save |-> after_save,
                  config |-> IF after_save THEN call.config
                             ELSE DefaultMonitorConfig]
      /\ ret' = load_config_from_file(config_file)
      /\ UNCHANGED <<program, presets, presets_file, config_file, initialized>>

\* platform.system()
Systems == {"Darwin", "Linux", "Windows"}

get_default_coordinates(system) ==
  CASE system = "Darwin" ->
         [x |-> IntVal(100), y |-> IntVal(100),
          width |-> IntVal(DEFAULT_MONITOR_SIZE),
          height |-> IntVal(DEFAULT_MONITOR_SIZE)]
    [] system = "Linux" ->
         [x |-> IntVal(100), y |-> IntVal(50),
          width |-> IntVal(DEFAULT_MONITOR_SIZE),
          height |-> IntVal(DEFAULT_MONITOR_SIZE)]
    [] OTHER ->
         [x |-> IntVal(DEFAULT_MONITOR_X), y |-> IntVal(DEFAULT_MONITOR_Y),
          width |-> IntVal(DEFAULT_MONITOR_SIZE),
          height |-> IntVal(DEFAULT_MONITOR_SIZE)]

\* bool(obj) of a MonitorConfig: a dataclass instance defines neither
\* __bool__ nor __len__, so it is true
Truthy(obj) == TRUE

\* PokemonRadarGUI.__init__ lines 31-42: self.config once constructed
InitialConfig(system, file) ==
  LET default_coords == get_default_coordinates(system)
      constructed == MonitorConfig(default_coords.x, default_coords.y,
                                   default_coords.width, default_coords.height)
      saved_config == load_config_from_file(file)
  IN  IF Truthy(saved_config) THEN saved_config ELSE constructed

\* the window is constructed on one of the platforms
Construct ==
  \E system \in Systems :
    /\ call' = [fn |-> "__init__", system |-> system,
                file |-> config_file.state]
    /\ ret' = InitialConfig(system, config_file)
    /\ UNCHANGED <<program, presets, presets_file, config_file, initialized>>

\* the preset names and configurations used
PresetNames == {"a", "b"}
PresetConfigs == {DefaultMonitorConfig, ConfigFull}

\* json.dump / json.load of the preset mapping
presets_dump(mapping) == [name \in DOMAIN mapping |-> json_dump(mapping[name])]
presets_load(text) == [name \in DOMAIN text |-> json_load(text[name])]

\* load_presets(): what the store holds; {} when the file is absent or
\* cannot be parsed
load_presets(file) ==
  IF file.state = "text" THEN presets_load(file.text) ELSE NoPresets

\* save_presets(): the exception of a failed write is re-raised
save_presets(file, mapping, outcome) ==
  WriteJson(file, presets_dump(mapping), outcome)

\* add_preset(name, config): the mapping is changed, then saved
add_preset(mapping, file, name, c, outcome) ==
  LET changed == [n \in DOMAIN mapping \cup {name} |->
                    IF n = name THEN config_data(c) ELSE mapping[n]]
      saved == save_presets(file, changed, outcome)
  IN  [presets |-> changed, file |-> saved.file, raised |-> saved.raised]

\* delete_preset(name): nothing when the name is not in the mapping; else
\* the mapping is changed, then saved
delete_preset(mapping, file, name, outcome) ==
  IF name \in DOMAIN mapping
  THEN LET changed == [n \in DOMAIN mapping \ {name} |-> mapping[n]]
           saved == save_presets(file, changed, outcome)
       IN  [presets |-> changed, file |-> saved.file, raised |-> saved.raised]
  ELSE [presets |-> mapping, file |-> file, raised |-> FALSE]

AddPreset ==
  \E name \in PresetNames, c \in PresetConfigs, outcome \in WriteOutcomes :
    LET r == add_preset(presets, presets_file, name, c, outcome)
    IN  /\ presets' = r.presets
        /\ presets_file' = r.file
        /\ UNCHANGED <<program, config_file, initialized, call, ret>>

DeletePreset ==
  \E name \in PresetNames, outcome \in WriteOutcomes :
    LET r == delete_preset(presets, presets_file, name, outcome)
    IN  /\ presets' = r.presets
        /\ presets_file' = r.file
        /\ UNCHANGED <<program, config_file, initialized, call, ret>>

\* AudioManager(): setup_pygame, mixer_ok telling whether mixer.init returns
SetupPygame ==
  \E mixer_ok \in BOOLEAN :
    /\ initialized' = mixer_ok
    /\ call' = [fn |-> "setup_pygame"]
    /\ ret' = NoCall
    /\ UNCHANGED <<program, presets, presets_file, config_file>>

\* cleanup(): when mixer.quit raises, initialized is left as it was
AudioCleanup ==
  \E quit_ok \in BOOLEAN :
    /\ initialized' = IF initialized /\ ~quit_ok THEN initialized ELSE FALSE
    /\ call' = [fn |-> "cleanup"]
    /\ ret' = NoCall
    /\ UNCHANGED <<program, presets, presets_file, config_file>>

PlayAlertSound ==
  \E outcome \in PlayOutcomes :
    /\ call' = [fn |-> "play_alert_sound", initialized |-> initialized,
                after_cleanup |-> call.fn = "cleanup", outcome |-> outcome]
    /\ ret' = play_alert_sound(initialized, outcome)
    /\ UNCHANGED <<program, presets, presets_file, config_file, initialized>>

ServicesNext ==
  \/ SaveConfig
  \/ LoadConfig
  \/ Construct
  \/ AddPreset
  \/ DeletePreset
  \/ SetupPygame
  \/ AudioCleanup
  \/ PlayAlertSound

ServicesSpec == IdleInit /\ [][ServicesNext]_vars

(***************************************************************************)
(* update_monitor_area with the file it saves: the form and the outcome of *)
(* the write are the inputs; call holds them with the configuration and    *)
(* the file before the call, ret whether the save raised (the handler      *)
(* catches it and shows the error).                                        *)
(***************************************************************************)
\* the numbers lines 242-248 assign: int() of the five integer fields,
\* float() of blue_threshold and check_interval
NumbersOf(c) ==
  [x |-> IntVal(c.x), y |-> IntVal(c.y), width |-> IntVal(c.width),
   height |-> IntVal(c.height), white_threshold |-> IntVal(c.white_threshold),
   blue_threshold |-> FloatVal(10 * c.blue_threshold),
   check_interval |-> FloatVal(10 * c.check_interval)]

UpdateMonitorArea ==
  \E g \in GuiInputs, outcome \in WriteOutcomes :
    LET r == save_config_to_file(config_file, NumbersOf(ConfigOf(g)), outcome)
    IN  /\ call' = [fn |-> "update_monitor_area", g |-> g,
                    outcome |-> outcome, config |-> config,
                    file |-> config_file]
        /\ config' = update_monitor_area(config, g)
        /\ IF validate_inputs(g)
           THEN config_file' = r.file /\ ret' = [raised |-> r.raised]
           ELSE config_file' = config_file /\ ret' = [raised |-> FALSE]
        /\ UNCHANGED <<monitoring, monitor_thread, consecutive_detections,
                       buttons, main_pc, pc, locals, mss_instance, obs, track,
                       hist, presets, presets_file, initialized>>

UpdateNext == UpdateMonitorArea

UpdateSpec == IdleInit /\ [][UpdateNext]_vars

(***************************************************************************)
(* The claims.                                                             *)
(***************************************************************************)
\* the pixels of a frame that satisfy P
CountWhere(image, P(_)) ==
  SumSeq([i \in 1..Len(image.pixels) |->
            IF P(image.pixels[i][1]) THEN image.pixels[i][2] ELSE 0])

\* the percentage r equals n / d
RatioIs(r, n, d) == r.num * d = n * r.den

\* the hue-saturation-value components of an 8-bit RGB pixel, as 8-bit
\* image libraries keep them: H in 0..179 (half degrees), S and V in 0..255
Max3(p) == IF p[1] >= p[2] /\ p[1] >= p[3] THEN p[1]
           ELSE IF p[2] >= p[3] THEN p[2] ELSE p[3]
Min3(p) == IF p[1] <= p[2] /\ p[1] <= p[3] THEN p[1]
           ELSE IF p[2] <= p[3] THEN p[2] ELSE p[3]
RGB2HSV(p) ==
  LET v == Max3(p)
      d == Max3(p) - Min3(p)
      sat == IF v = 0 THEN 0 ELSE (255 * d * 2 + v) \div (2 * v)
      \* the hue in degrees, times d
      hd == IF d = 0 THEN 0
            ELSE IF v = p[1] THEN 60 * (p[2] - p[3])
            ELSE IF v = p[2] THEN 120 * d + 60 * (p[3] - p[1])
            ELSE 240 * d + 60 * (p[1] - p[2])
      hpos == IF hd < 0 THEN hd + 360 * d ELSE hd
      hue == IF d = 0 THEN 0 ELSE ((hpos + d) \div (2 * d)) % 180
  IN  <<hue, sat, v>>

\* C1: a worker whose cycles so far detected both conditions in fewer than
\* MIN_CONSECUTIVE_DETECTIONS cycles has not invoked the alert and is not
\* about to; one whose cycles detected in exactly
\* MIN_CONSECUTIVE_DETECTIONS consecutive cycles has invoked it exactly
\* once, the invocation being that of the last of these cycles.
C1_Debounce ==
  (track = "debounce" /\ hist.inScope /\ pc[obs] \in Live) =>
    /\ hist.nDet < MIN_CONSECUTIVE_DETECTIONS =>
         hist.nAlert = 0 /\ pc[obs] # "alert"
    /\ hist.nDet = MIN_CONSECUTIVE_DETECTIONS =>
         hist.nAlert = (IF pc[obs] = "alert" THEN 0 ELSE 1)

\* C2: a cycle invokes the alert only if the cycle before it, of the same
\* worker, detected both conditions too (every other kind of cycle having
\* reset consecutive_detections to 0).
C2_AlertNeedsTwoDetections ==
  [][(track = "reset" /\ pc[obs] = "classify" /\ pc'[obs] = "alert")
       => hist.kind = "D"]_vars

\* C3: once max_errors consecutive cycles of a worker each had a failed
\* capture, the worker is leaving the loop: it is in the exception handler
\* that ends the session, it cycles no further.
C3_ErrorBudget ==
  (track = "failures" /\ hist.failRun >= max_errors) => pc[obs] = "except"

\* C4: at most one worker thread is inside monitor_screen at any time.
C4_OneWorker == Cardinality({w \in Threads : pc[w] \in Live}) <= 1

\* C5: after a start request whose entered values fail validate_inputs the
\* monitoring flag is false.
C5_InvalidNeverRuns == (track = "start" /\ hist.invalidStart) => ~monitoring

\* C6: the step by which a worker ends the session because error_count
\* reached max_errors leaves the start control enabled and the stop control
\* disabled.
C6_BudgetRestoresIdle ==
  [][\A w \in Threads :
       (pc[w] = "except" /\ pc'[w] # "except" /\ monitoring /\ ~monitoring')
         => (start_button' = "normal" /\ stop_button' = "disabled")]_vars

C8_HandleReleased ==
  \A w \in Threads : pc[w] \in Terminated => mss_instance[w] # "open"

\* C9 as stated: a worker whose every frame is uniformly of a colour of the
\* blue band, classified under white_threshold 200 and blue_threshold 50,
\* detects both conditions in each cycle and invokes the alert in the 2nd.
C9_EndToEnd ==
  (track = "endtoend" /\ hist.inScope /\ pc[obs] \in Live) =>
    /\ hist.nDet = hist.nCycles
    /\ hist.nCycles >= 2 => (hist.nAlert >= 1 \/ pc[obs] = "alert")

\* C9 amended: every colour of the blue band has a grey level below 200, so
\* a worker whose every frame is uniformly of such a colour, classified
\* under white_threshold 200 and blue_threshold 50, detects in no cycle and
\* never invokes the alert.
C9_UniformBlueNeverAlerts ==
  /\ Gray(BLUE_UPPER) < 200
  /\ (track = "endtoend" /\ hist.inScope /\ pc[obs] \in Live) =>
       hist.nDet = 0 /\ hist.nAlert = 0 /\ pc[obs] # "alert"

\* two cycles on uniformly blue frames under thresholds 200 and 50 are over
C9_Witness ==
  /\ track = "endtoend" /\ hist.inScope /\ hist.nCycles >= 2
  /\ pc[obs] = "interval" /\ monitoring

\* C10: the step of a cycle that rejects its frame for quality does not
\* increment error_count; a worker whose every cycle rejected its frame has
\* error_count 0, is neither alerting nor in the exception handler nor
\* ended by an exception, and none of its steps clears self.monitoring.
C10_QualityRejectsAreFree ==
  [][/\ \A w \in Threads :
          (pc[w] = "loop" /\ pc'[w] = "interval")
            => error_count'[w] <= error_count[w]
     /\ (track = "quality" /\ hist'.inScope) =>
          /\ error_count'[obs] = 0
          /\ pc'[obs] \notin {"alert", "except", "crashed"}
          /\ (pc[obs] \in Live /\ pc'[obs] # pc[obs])
               => monitoring' = monitoring]_vars

\* HistCap cycles, every one rejected by the quality check, and still Running
C10_Witness ==
  /\ track = "quality" /\ hist.inScope /\ hist.nCycles = HistCap
  /\ pc[obs] = "interval" /\ monitoring

\* C11: once max_errors consecutive cycles of a worker each ended in an
\* exception, wherever in the cycle it was raised, the worker is in the
\* exception handler with error_count about to reach max_errors: the
\* session is terminated at that cycle.
C11_ExceptionsCount ==
  (track = "exceptions" /\ hist.excRun >= max_errors) =>
    pc[obs] = "except" /\ error_count[obs] + 1 >= max_errors

\* C12: for every region of width > 0 and height > 0, take_screenshot
\* returns a frame of exactly width x height pixels and never raises; when
\* the grab fails the frame is the all-black frame of those dimensions.
C12_AlwaysAFrame ==
  (call.fn = "take_screenshot" /\ call.width > 0 /\ call.height > 0) =>
    /\ ~ret.raised
    /\ ret.image.width = call.width /\ ret.image.height = call.height
    /\ TotalPixels(ret.image) = call.width * call.height
    /\ call.outcome \notin Scenes =>
         ret.image = BlackImage(call.width, call.height)

\* C13: a cycle in which the white or the blue classifier fails internally
\* is a non-detection for every valid configuration, blue_threshold = 0
\* included: consecutive_detections is reset to 0 and the alert is not
\* invoked.
C13_FailedClassifierIsAMiss ==
  (call.fn = "cycle" /\ (call.white_fails \/ call.blue_fails)) =>
    ~ret.detected /\ ret.consecutive_detections = 0 /\ ~ret.alert

\* C14: analyze_screenshot_quality counts as black exactly the pixels whose
\* three channels are all below 10, reports black / total * 100, and finds
\* the frame valid iff that is at most 95: an all-black frame gives
\* (false, 100), an all-white frame (true, 0), and a frame exactly 95%
\* black is valid.
C14_QualityCheck ==
  call.fn = "analyze_screenshot_quality" =>
    LET black == CountWhere(call.image,
                            LAMBDA p : p[1] < 10 /\ p[2] < 10 /\ p[3] < 10)
        total == call.image.width * call.image.height
    IN  /\ RatioIs(ret.black_percentage, black * 100, total)
        /\ ret.is_valid <=> (black * 100 <= 95 * total)
        /\ call.image = Frame(Black, Black, 50) =>
             ~ret.is_valid /\ RatioIs(ret.black_percentage, 100, 1)
        /\ call.image = Frame(White, White, 50) =>
             ret.is_valid /\ RatioIs(ret.black_percentage, 0, 1)
        /\ call.image = Frame(White, Black, 5) =>
             ret.is_valid /\ RatioIs(ret.black_percentage, 95, 1)
        /\ call.image = Frame(White, Black, 4) =>
             ~ret.is_valid /\ RatioIs(ret.black_percentage, 96, 1)

\* a frame exactly 95% black, 5% of it one step off the cutoff, was checked
\* and found valid
C14_Witness ==
  /\ call.fn = "analyze_screenshot_quality"
  /\ call.image = Frame(OffBlack, NearBlack, 5)
  /\ ret.is_valid
  /\ RatioIs(ret.black_percentage, 95, 1)

\* C15: on one frame, the white ratio at threshold t2 is at most the ratio
\* at threshold t1 whenever t1 <= t2 (both in 0..255), and the ratio at
\* threshold 0 is 100.
C15_WhiteMonotone ==
  (call.fn = "detect_white_pixels" /\ call.t1 <= call.t2) =>
    /\ ret.hi.num * ret.lo.den <= ret.lo.num * ret.hi.den
    /\ call.t1 = 0 => RatioIs(ret.lo, 100, 1)

\* a frame half white and half grey: 100 at threshold 0, 50 at threshold 200
C15_Witness ==
  /\ call.fn = "detect_white_pixels"
  /\ call.image = Frame(White, Grey, 50)
  /\ call.t1 = 0 /\ call.t2 = 200
  /\ RatioIs(ret.lo, 100, 1)
  /\ RatioIs(ret.hi, 50, 1)

\* C16: detect_blue_pixels returns 100 * (pixels with R in 0..15, G in
\* 70..155, B in 75..155, bounds included) / (pixels of the frame): 0 when
\* no pixel is in the band, 100 when every pixel is.
C16_BlueRatio ==
  call.fn = "detect_blue_pixels" =>
    LET in_band == CountWhere(call.image,
                     LAMBDA p : /\ 0 <= p[1] /\ p[1] <= 15
                                /\ 70 <= p[2] /\ p[2] <= 155
                                /\ 75 <= p[3] /\ p[3] <= 155)
        total == call.image.width * call.image.height
    IN  /\ RatioIs(ret, 100 * in_band, total)
        /\ in_band = 0 => RatioIs(ret, 0, 1)
        /\ in_band = total => RatioIs(ret, 100, 1)

\* the two corners of the band are in it: a frame of these two colours is
\* 100% blue; one step outside the band is not: half of such a frame is blue
C16_Witness ==
  /\ call.fn = "detect_blue_pixels"
  /\ \/ call.image = Frame(BLUE_LOWER, BLUE_UPPER, 50) /\ RatioIs(ret, 100, 1)
     \/ call.image = Frame(BLUE_LOWER, BelowBlue, 50) /\ RatioIs(ret, 50, 1)

\* C17 as stated: whatever MonitorConfig is saved, a load that follows the
\* save returns a configuration equal to it in all seven fields.
C17_RoundTripAny ==
  (call.fn = "load_config_from_file" /\ call.after_save) =>
    \A k \in ConfigKeys : PyEq(ret[k], call.config[k])

\* C17: for every MonitorConfig c none of whose fields is nan,
\* save_config_to_file(c) followed by load_config_from_file() returns a
\* configuration equal to c in all seven fields.
C17_RoundTrip ==
  (/\ call.fn = "load_config_from_file" /\ call.after_save
   /\ \A k \in ConfigKeys : call.config[k] # NaN) =>
    \A k \in ConfigKeys : PyEq(ret[k], call.config[k])

\* a configuration that differs from the defaults in every field was saved
\* and loaded back
C17_Witness ==
  /\ call.fn = "load_config_from_file" /\ call.after_save
  /\ call.config = ConfigFull
  /\ ret = ConfigFull

\* C18: when no configuration file exists at construction, the initial
\* region (x, y, width, height) is the one get_default_coordinates returns
\* for the platform.
C18_PlatformDefault ==
  (call.fn = "__init__" /\ call.file = "absent") =>
    \A k \in {"x", "y", "width", "height"} :
      ret[k] = get_default_coordinates(call.system)[k]

\* C19: after any sequence of add_preset and delete_preset calls, failing
\* writes included, what the presets store holds equals the in-memory
\* mapping.
C19_StoreEqualsMapping ==
  load_presets(presets_file) = presets

\* C20: play_alert_sound never raises; when the audio system is not
\* initialized (after cleanup included) or the playback fails, the terminal
\* bell is rung and the call returns.
C20_AlertNeverRaises ==
  call.fn = "play_alert_sound" =>
    /\ ~ret.raised
    /\ (~call.initialized \/ call.outcome = "playback_error") => ret.bell

\* the alert was asked for right after cleanup: the bell rang; or with the
\* audio system initialized and the playback failing: the bell rang
C20_Witness ==
  /\ call.fn = "play_alert_sound"
  /\ ret.bell /\ ~ret.raised
  /\ \/ call.after_cleanup /\ ~call.initialized
     \/ call.initialized /\ call.outcome = "playback_error"

\* C21: the alert decisions of a session depend on the cycles of that
\* session alone: a worker whose own cycles so far detected both conditions
\* fewer than MIN_CONSECUTIVE_DETECTIONS times (its session having started
\* with consecutive_detections = 0) has not invoked the alert and is not
\* about to, whatever an earlier session or an earlier worker counted.
C21_SessionsIndependent ==
  (/\ track = "debounce" /\ hist.inScope /\ pc[obs] \in Live \ {"init"}
   /\ hist.nDet < MIN_CONSECUTIVE_DETECTIONS) =>
    /\ pc[obs] # "alert" /\ hist.nAlert = 0
    /\ consecutive_detections <= hist.nDet

\* C22: a worker that invoked the alert and slept the cool-down goes
\* straight to the next cycle: it does not sleep check_interval as well.
C22_OneSleepPerCycle ==
  [][\A w \in Threads :
       (pc[w] = "alert" /\ pc'[w] # pc[w]) => pc'[w] = "loop"]_vars

\* C23: in a run of consecutive detecting cycles of a worker the counter
\* goes up by one in every cycle and is not reset by the alert, and every
\* cycle of the run from the MIN_CONSECUTIVE_DETECTIONS-th onward (for
\* MIN = 2: every detecting cycle that follows a detecting cycle) invokes
\* the alert.
C23_AlertEveryCycleOfARun ==
  [][/\ (/\ track = "reset" /\ pc[obs] = "classify"
         /\ pc'[obs] \in {"alert", "interval"}
         /\ hist.kind = "D" /\ hist'.kind = "D") =>
          /\ pc'[obs] = "alert"
          /\ consecutive_detections' >= MIN_CONSECUTIVE_DETECTIONS
     /\ \A w \in Threads :
          (pc[w] = "alert" /\ pc'[w] # pc[w]) =>
            consecutive_detections' = consecutive_detections]_vars

\* C24 as stated: error_count at the start of a cycle is the number of
\* cycles just past, consecutive, in which the capture failed.
C24_CountsCaptureFailuresOnly ==
  (track = "exceptions" /\ pc[obs] = "loop") =>
    error_count[obs] = hist.failRun

\* C24: error_count is 0 from the capture of a cycle that returned a frame
\* on, whatever the quality check finds and whatever the frame shows; at
\* the start of a cycle it is the number of cycles just past, consecutive,
\* in which take_screenshot raised, plus one when the cycle before these
\* ended in an exception raised after its capture.
C24_ErrorCount ==
  track = "exceptions" =>
    /\ pc[obs] \in {"classify", "alert", "interval"} => error_count[obs] = 0
    /\ pc[obs] = "loop" =>
         error_count[obs] = hist.failRun + (IF hist.kind = "E" THEN 1 ELSE 0)

\* a cycle ended in an exception raised after its capture, the next in one
\* raised by take_screenshot: error_count is 2 at the start of the third
C24_Witness ==
  /\ track = "exceptions" /\ pc[obs] = "loop"
  /\ hist.kind = "E" /\ hist.failRun = 1
  /\ error_count[obs] = 2

\* C25: whenever a session enters Running, the region start_monitoring took
\* its test capture of is the region in effect for the session.
C25_ProbeOfTheMonitoredRegion ==
  [][(~monitoring /\ monitoring') => ProbeRegion(config) = RegionOf(config')]_vars

\* C26: a cycle whose classifiers do not fail counts as a detection iff
\* the white ratio is above 0.1 (strictly, whatever white_threshold is)
\* and the blue ratio is at least blue_threshold: a white ratio of exactly
\* 0.1 is no detection, a blue ratio of exactly blue_threshold is one.
C26_DetectionRule ==
  (call.fn = "cycle" /\ ~call.white_fails /\ ~call.blue_fails) =>
    LET total == call.image.width * call.image.height
        white == CountWhere(call.image,
                            LAMBDA p : Gray(p) >= call.white_threshold)
        blue == CountWhere(call.image,
                           LAMBDA p : InRange(p, BLUE_LOWER, BLUE_UPPER))
    IN  /\ ret.detected <=> (/\ white * 100 * 10 > total
                             /\ blue * 100 >= call.blue_threshold * total)
        /\ (call.image = FineFrame(1, 500) /\ call.blue_threshold = 50) =>
             ~ret.detected
        /\ (call.image = FineFrame(2, 500) /\ call.blue_threshold = 50) =>
             ret.detected
        /\ (call.image = FineFrame(2, 499) /\ call.blue_threshold = 50) =>
             ~ret.detected

\* a frame with a blue ratio of exactly the threshold and a white ratio of
\* 0.2 was classified and counted as a detection
C26_Witness ==
  /\ call.fn = "cycle" /\ ~call.white_fails /\ ~call.blue_fails
  /\ call.image = FineFrame(2, 500) /\ call.blue_threshold = 50
  /\ ret.detected /\ ret.consecutive_detections = call.n + 1

\* C27: detect_blue_pixels counts a pixel as blue iff its hue, saturation
\* and value, after conversion from RGB, are in [0,15], [70,155] and
\* [75,155]: the ratio it returns is that of the pixels whose HSV
\* components are in the band.
C27_BandOnHSV ==
  call.fn = "detect_blue_pixels" =>
    RatioIs(ret,
            100 * CountWhere(call.image,
                    LAMBDA p : InRange(RGB2HSV(p), BLUE_LOWER, BLUE_UPPER)),
            call.image.width * call.image.height)

\* C28: all the reads of self.config in one cycle of a worker (the region
\* at the capture, the thresholds at the decision, check_interval at the
\* sleep) see one configuration: no write of the foreground lands between
\* the capture and the sleep of a cycle.
C28_OneConfigurationPerCycle ==
  [][(\E w \in Threads : pc[w] \in {"classify", "alert", "interval"})
       => config' = config]_vars

\* C29: a call of get_mss_instance or cleanup touches the handle of the
\* calling thread alone; get_mss_instance leaves the caller with an open
\* handle, created by the call iff the caller had none open (on its first
\* use, and on the first use after its cleanup); cleanup closes the
\* caller's handle if it is open.
C29_HandlesPerThread ==
  call.fn \in {"get_mss_instance", "cleanup"} =>
    /\ \A u \in AllThreads \ {call.thread} :
         mss_instance[u] = call.before[u]
    /\ call.fn = "get_mss_instance" =>
         /\ mss_instance[call.thread] = "open"
         /\ ret.created <=> call.before[call.thread] # "open"
    /\ call.fn = "cleanup" =>
         /\ mss_instance[call.thread] # "open"
         /\ call.before[call.thread] = "open" =>
              mss_instance[call.thread] = "closed"

\* a thread whose handle was closed by its cleanup asked for a handle again
\* and got a new one, while the closed handle of another thread stayed closed
\* and the open handle of a third stayed open
C29_Witness ==
  /\ call.fn = "get_mss_instance"
  /\ call.before[call.thread] = "closed"
  /\ ret.created /\ mss_instance[call.thread] = "open"
  /\ \E u, v \in AllThreads \ {call.thread} :
       mss_instance[u] = "closed" /\ mss_instance[v] = "open"

\* C30: whenever monitoring is true and no handler of the window is under
\* way, some worker thread is alive in monitor_screen; no worker ends, by an
\* exception of its own handler either, and leaves monitoring true.
C30_NoDeadSession ==
  (monitoring /\ main_pc = "idle") => \E w \in Threads : pc[w] \in Live

\* C31: an update_monitor_area whose entered values fail validation leaves
\* self.config and the configuration file as they were; self.config and the
\* file change only in a call whose seven fields validated; and a call that
\* validated and whose save returned leaves self.config equal to the entered
\* values and the file holding exactly those values.
C31_UpdateIsAllOrNothing ==
  call.fn = "update_monitor_area" =>
    /\ ~validate_inputs(call.g) =>
         config = call.config /\ config_file = call.file
    /\ (config # call.config \/ config_file # call.file) =>
         \A f \in FieldNames : call.g[f] \in Literals
    /\ (validate_inputs(call.g) /\ ~ret.raised) =>
         /\ config = ConfigOf(call.g)
         /\ config_file = TextFile(json_dump(config_data(NumbersOf(config))))

\* the form failed validation after an earlier update had stored the values
\* of InputB in self.config and in the file: both still hold them
C31_Witness ==
  /\ call.fn = "update_monitor_area"
  /\ ~validate_inputs(call.g)
  /\ config = ConfigOf(InputB) /\ config # ConfigOf(InputA)
  /\ call.config = config
  /\ config_file = TextFile(json_dump(config_data(NumbersOf(config))))
  /\ call.file = config_file

\* C32: error_count of every worker stays within 0..max_errors (= 5), and
\* a worker that is still in monitor_screen has a count below max_errors:
\* the increment that reaches max_errors is the worker's last.
C32_ErrorCountBounded ==
  /\ max_errors = 5
  /\ \A w \in Threads :
       /\ 0 <= error_count[w] /\ error_count[w] <= max_errors
       /\ pc[w] \in Live => error_count[w] < max_errors

\* a worker is in the exception handler with max_errors - 1 errors counted:
\* the increment of this handler reaches max_errors
C32_Witness ==
  \E w \in Threads :
    /\ pc[w] = "except" /\ error_count[w] = max_errors - 1
    /\ monitoring /\ monitor_thread = w

====
